---- MODULE Spec2Model ----
(***************************************************************************)
(* Model of src/libbpfcontain.rs (BPFContain user-space library):          *)
(*   - containerize(): the binding call and its result-code mapping;       *)
(*   - the five bitflags! sets and the operations the macro generates.     *)
(* The enforcement engine behind bindings::containerize is not part of the *)
(* file; it is modelled from the written specification (section 4.3).      *)
(***************************************************************************)
EXTENDS Integers, Sequences, FiniteSets, TLC

VARIABLES
    attached,    \* engine side: the uprobe is attached (privileged call can be entered)
    containers,  \* engine side: ids of the container descriptors loaded
    processes,   \* engine side: process table, a map pid -> container id
    last,        \* the last containerize() invocation: inputs, engine calls seen, result
    fs,          \* flag-set part: the flag set under test
    x,           \* flag-set part: a value of the set (raw bits)
    y,           \* flag-set part: a second value of the set (raw bits)
    res          \* flag-set part: the last flag operation and what it returned

vars == <<attached, containers, processes, last, fs, x, y, res>>

flagVars == <<fs, x, y, res>>

(***************************************************************************)
(* Bounds of the model.                                                    *)
(***************************************************************************)
NumProcs == 2        \* processes that may call containerize
MaxSmallId == 1      \* container ids 0..MaxSmallId, plus the multi-digit ids below
MapCapacity == 1     \* room in the engine's process table
CodeBound == 23      \* engine result codes -CodeBound..CodeBound, plus the extras below
MaxRaw == 8          \* raw integers 0..MaxRaw handed to the flag constructors

Procs == 1..NumProcs
ContainerIds == (0..MaxSmallId) \cup {10, 4242}

(***************************************************************************)
(* errno values used by containerize (libc, Linux).                        *)
(***************************************************************************)
EAGAIN == 11
ENOENT == 2
EINVAL == 22

Codes == ((0 - CodeBound)..CodeBound) \cup {0 - 999, 999, 0 - 2147483647, 2147483647}

(***************************************************************************)
(* Decimal formatting, as `{}` does for integers: a sequence of characters.*)
(***************************************************************************)
DigitChars == <<"0", "1", "2", "3", "4", "5", "6", "7", "8", "9">>

RECURSIVE FormatUnsigned(_)
FormatUnsigned(n) ==
    IF n < 10 THEN <<DigitChars[n + 1]>>
    ELSE FormatUnsigned(n \div 10) \o <<DigitChars[(n % 10) + 1]>>

FormatSigned(n) ==
    IF n < 0 THEN <<"-">> \o FormatUnsigned(0 - n) ELSE FormatUnsigned(n)

(***************************************************************************)
(* Result<()> of containerize: Ok(()) or an anyhow error, which is its     *)
(* message: the format string and the formatted argument (if any).         *)
(***************************************************************************)
Ok == [ok |-> TRUE, fmt |-> "", arg |-> <<>>]
Err(fmt, arg) == [ok |-> FALSE, fmt |-> fmt, arg |-> arg]

\* Deviations of the match on the result code: zero-or-positive as success, positive
\* errno values, the code formatted in place of the id, the sign dropped, EINVAL as
\* success.
MatchAcceptsPositive(container_id, result) ==
    IF result >= 0 THEN Ok
    ELSE IF result = 0 - EAGAIN THEN Err("Failed to call into uprobe", <<>>)
    ELSE IF result = 0 - ENOENT
         THEN Err("No such container with ID {}", FormatUnsigned(container_id))
    ELSE IF result = 0 - EINVAL
         THEN Err("Process is already containerized or no room in map", <<>>)
    ELSE Err("Unknown error {}", FormatSigned(result))

MatchPositiveErrno(container_id, result) ==
    IF result = 0 THEN Ok
    ELSE IF result = EAGAIN THEN Err("Failed to call into uprobe", <<>>)
    ELSE IF result = ENOENT
         THEN Err("No such container with ID {}", FormatUnsigned(container_id))
    ELSE IF result = EINVAL
         THEN Err("Process is already containerized or no room in map", <<>>)
    ELSE Err("Unknown error {}", FormatSigned(result))

MatchFormatsCode(container_id, result) ==
    IF result = 0 THEN Ok
    ELSE IF result = 0 - EAGAIN THEN Err("Failed to call into uprobe", <<>>)
    ELSE IF result = 0 - ENOENT
         THEN Err("No such container with ID {}", FormatSigned(result))
    ELSE IF result = 0 - EINVAL
         THEN Err("Process is already containerized or no room in map", <<>>)
    ELSE Err("Unknown error {}", FormatSigned(result))

MatchDropsSign(container_id, result) ==
    IF result = 0 THEN Ok
    ELSE IF result = 0 - EAGAIN THEN Err("Failed to call into uprobe", <<>>)
    ELSE IF result = 0 - ENOENT
         THEN Err("No such container with ID {}", FormatUnsigned(container_id))
    ELSE IF result = 0 - EINVAL
         THEN Err("Process is already containerized or no room in map", <<>>)
    ELSE Err("Unknown error {}", FormatUnsigned(IF result < 0 THEN 0 - result ELSE result))

MatchIdempotent(container_id, result) ==
    IF result = 0 \/ result = 0 - EINVAL THEN Ok
    ELSE IF result = 0 - EAGAIN THEN Err("Failed to call into uprobe", <<>>)
    ELSE IF result = 0 - ENOENT
         THEN Err("No such container with ID {}", FormatUnsigned(container_id))
    ELSE Err("Unknown error {}", FormatSigned(result))

\* The match of containerize on the engine's result code (first arm that matches).
MatchResult(container_id, result) ==
    IF result = 0 THEN Ok
    ELSE IF result = 0 - EAGAIN THEN Err("Failed to call into uprobe", <<>>)
    ELSE IF result = 0 - ENOENT
         THEN Err("No such container with ID {}", FormatUnsigned(container_id))
    ELSE IF result = 0 - EINVAL
         THEN Err("Process is already containerized or no room in map", <<>>)
    ELSE Err("Unknown error {}", FormatSigned(result))

\* The argument containerize hands to bindings::containerize.
EngineArg(container_id) == container_id

\* Further engine calls containerize makes after a call returned `result`: none.
\* (RetryOnEAGAIN is the deviation that calls again after EAGAIN.)
RetryOnEAGAIN(result) == IF result = 0 - EAGAIN THEN 1 ELSE 0
Retries(result) == 0

(***************************************************************************)
(* The enforcement engine behind bindings::containerize (section 4.3 of    *)
(* the specification): the outcomes of one call by process p with argument *)
(* arg on process table procs.  Where both ENOENT and EINVAL apply, the    *)
(* specification gives no order: either may be returned.                   *)
(***************************************************************************)
EngineOutcomes(procs, p, arg) ==
    IF ~attached
    THEN {[code |-> 0 - EAGAIN, processes |-> procs]}
    ELSE LET unknown == arg \notin containers
             invalid == \/ p \in DOMAIN procs
                        \/ Cardinality(DOMAIN procs) >= MapCapacity
         IN  IF ~unknown /\ ~invalid
             THEN {[code |-> 0,
                    processes |-> [q \in DOMAIN procs \cup {p} |->
                                      IF q = p THEN arg ELSE procs[q]]]}
             ELSE {[code |-> 0 - ENOENT, processes |-> procs] : u \in {u \in {1} : unknown}}
                  \cup
                  {[code |-> 0 - EINVAL, processes |-> procs] : u \in {u \in {1} : invalid}}

\* One engine call, recorded: r is [code, processes, saw].
EngineCall(r, p, arg) ==
    {[code |-> o.code, processes |-> o.processes, saw |-> Append(r.saw, arg)] :
        o \in EngineOutcomes(r.processes, p, arg)}

\* All engine calls of one invocation of containerize by process p.
RunContainerize(p, container_id) ==
    LET first == EngineCall([code |-> 0, processes |-> processes, saw |-> <<>>],
                            p, EngineArg(container_id))
    IN  UNION {IF Retries(r.code) > 0
               THEN EngineCall(r, p, EngineArg(container_id))
               ELSE {r} : r \in first}

NoCall ==
    [called |-> FALSE, proc |-> 1, container_id |-> 0, saw |-> <<>>, code |-> 0,
     result |-> Ok, before |-> <<>>, wasKnown |-> FALSE, wasAttached |-> FALSE]

(***************************************************************************)
(* Actions of the binding protocol.                                        *)
(***************************************************************************)
Init ==
    /\ attached \in BOOLEAN
    /\ containers = {}
    /\ processes = <<>>
    /\ last = NoCall
    /\ fs = "PolicyDecision"
    /\ x = [bits |-> 0]
    /\ y = [bits |-> 0]
    /\ res = [op |-> "none", a |-> 0, b |-> 0, some |-> FALSE, out |-> 0]

\* Process p calls containerize(container_id).
Containerize(p, container_id) ==
    /\ \E r \in RunContainerize(p, container_id) :
          /\ processes' = r.processes
          /\ last' = [called |-> TRUE, proc |-> p, container_id |-> container_id,
                      saw |-> r.saw, code |-> r.code,
                      result |-> MatchResult(container_id, r.code),
                      before |-> processes,
                      wasKnown |-> container_id \in containers,
                      wasAttached |-> attached]
    /\ UNCHANGED <<attached, containers>>
    /\ UNCHANGED flagVars

\* Environment: the daemon attaches / detaches the engine's uprobe.
EngineAttach ==
    /\ ~attached
    /\ attached' = TRUE
    /\ UNCHANGED <<containers, processes, last>>
    /\ UNCHANGED flagVars

EngineDetach ==
    /\ attached
    /\ attached' = FALSE
    /\ UNCHANGED <<containers, processes, last>>
    /\ UNCHANGED flagVars

\* Environment: the external policy loader creates a container descriptor.
LoadContainer(c) ==
    /\ c \notin containers
    /\ containers' = containers \cup {c}
    /\ UNCHANGED <<attached, processes, last>>
    /\ UNCHANGED flagVars

Next ==
    \/ \E p \in Procs, c \in ContainerIds : Containerize(p, c)
    \/ EngineAttach
    \/ EngineDetach
    \/ \E c \in ContainerIds : LoadContainer(c)

Spec == Init /\ [][Next]_vars

(***************************************************************************)
(* The result-code mapping alone: bindings::containerize is a foreign      *)
(* function returning a C int, so containerize must handle every code n.   *)
(***************************************************************************)
InitCodes == Init /\ attached = FALSE

\* containerize(container_id) where the foreign call returns n.
ContainerizeReturning(p, container_id, n) ==
    /\ last' = [called |-> TRUE, proc |-> p, container_id |-> container_id,
                saw |-> <<EngineArg(container_id)>>, code |-> n,
                result |-> MatchResult(container_id, n),
                before |-> processes,
                wasKnown |-> container_id \in containers,
                wasAttached |-> attached]
    /\ UNCHANGED <<attached, containers, processes>>
    /\ UNCHANGED flagVars

NextCodes ==
    \E p \in Procs, c \in ContainerIds, n \in Codes : ContainerizeReturning(p, c, n)

SpecCodes == InitCodes /\ [][NextCodes]_vars

(***************************************************************************)
(* Reading the results: the error taxonomy of the specification (section 7)*)
(* names the four messages of containerize; parsing undoes `{}`.           *)
(***************************************************************************)
ErrorKind(r) ==
    IF r.ok THEN "success"
    ELSE IF r.fmt = "Failed to call into uprobe" THEN "TransitionFailure"
    ELSE IF r.fmt = "No such container with ID {}" THEN "UnknownContainer"
    ELSE IF r.fmt = "Process is already containerized or no room in map"
         THEN "InvalidState"
    ELSE IF r.fmt = "Unknown error {}" THEN "UnknownEngineError"
    ELSE "unclassified"

DigitValue(ch) ==
    IF \E i \in 0..9 : DigitChars[i + 1] = ch
    THEN CHOOSE i \in 0..9 : DigitChars[i + 1] = ch
    ELSE 0 - 1

RECURSIVE ParseUnsigned(_)
\* The number a digit string denotes; -1 when it is not a digit string.
ParseUnsigned(s) ==
    IF s = <<>> THEN 0 - 1
    ELSE LET d == DigitValue(s[Len(s)])
         IN  IF d < 0 THEN 0 - 1
             ELSE IF Len(s) = 1 THEN d
             ELSE LET hi == ParseUnsigned(SubSeq(s, 1, Len(s) - 1))
                  IN  IF hi < 0 THEN 0 - 1 ELSE hi * 10 + d

\* [ok, val]: the signed number a string denotes.
ParseSigned(s) ==
    IF s # <<>> /\ s[1] = "-"
    THEN LET m == ParseUnsigned(Tail(s))
         IN  [ok |-> m > 0, val |-> 0 - m]
    ELSE LET m == ParseUnsigned(s)
         IN  [ok |-> m >= 0, val |-> m]

(***************************************************************************)
(* Claims about containerize.                                              *)
(***************************************************************************)

\* C1: containerize returns Ok if and only if the engine's result code is 0:
\* code 0 yields Ok(()), every non-zero code, positive or negative, yields an error.
C1_OkIffZero ==
    last.called =>
        /\ (last.code = 0 => last.result = Ok)
        /\ (last.code # 0 => ~last.result.ok)

C1_Witness ==
    /\ last.called /\ last.code = 0 /\ last.result.ok /\ last.container_id = 4242

\* C2: the engine's EAGAIN code (-EAGAIN) yields TransitionFailure, its ENOENT code
\* (-ENOENT) UnknownContainer, its EINVAL code (-EINVAL) InvalidState, for every
\* container id; each of the three kinds arises from that code only, so the kinds
\* are pairwise distinct and none of them is the UnknownEngineError catch-all.
C2_RecognizedCodes ==
    last.called =>
        /\ (last.code = 0 - EAGAIN <=> ErrorKind(last.result) = "TransitionFailure")
        /\ (last.code = 0 - ENOENT <=> ErrorKind(last.result) = "UnknownContainer")
        /\ (last.code = 0 - EINVAL <=> ErrorKind(last.result) = "InvalidState")
        /\ (last.code \in {0 - EAGAIN, 0 - ENOENT, 0 - EINVAL} =>
                ErrorKind(last.result) # "UnknownEngineError")

C2_Witness ==
    /\ last.called /\ last.code = 0 - EINVAL
    /\ ErrorKind(last.result) = "InvalidState"
    /\ last.container_id = 10

\* C3: on the engine's ENOENT code the UnknownContainer error carries exactly the
\* caller's container id (its decimal reading is the id); every other outcome is
\* the same for every container id, so it carries none.
C3_CarriesContainerId ==
    last.called =>
        /\ (last.code = 0 - ENOENT =>
                /\ ErrorKind(last.result) = "UnknownContainer"
                /\ ParseUnsigned(last.result.arg) = last.container_id)
        /\ (ErrorKind(last.result) # "UnknownContainer" =>
                \A c \in ContainerIds : MatchResult(c, last.code) = last.result)

C3_Witness ==
    /\ last.called /\ last.code = 0 - ENOENT /\ last.container_id = 4242
    /\ last.result.arg = <<"4", "2", "4", "2">>

\* C4: every code n other than 0 and the three recognized codes yields
\* UnknownEngineError carrying n unchanged (sign included); every code yields
\* exactly one of the five outcomes.
C4_CatchAllKeepsCode ==
    last.called =>
        /\ (last.code \notin {0, 0 - EAGAIN, 0 - ENOENT, 0 - EINVAL} =>
                /\ ErrorKind(last.result) = "UnknownEngineError"
                /\ ParseSigned(last.result.arg) = [ok |-> TRUE, val |-> last.code])
        /\ ErrorKind(last.result) \in
                {"success", "TransitionFailure", "UnknownContainer", "InvalidState",
                 "UnknownEngineError"}

C4_Witness ==
    /\ last.called /\ last.code = 0 - 999
    /\ last.result = Err("Unknown error {}", <<"-", "9", "9", "9">>)

C6_SingleEngineCall ==
    last.called =>
        /\ last.saw = <<last.container_id>>
        /\ (last.result.ok <=> last.code = 0)
        /\ (last.result.ok =>
                /\ last.proc \notin DOMAIN last.before
                /\ last.proc \in DOMAIN processes
                /\ processes[last.proc] = last.container_id)
        /\ (~last.result.ok => processes = last.before)

C6_Witness ==
    /\ last.called /\ last.code = 0 - EAGAIN /\ ~last.wasKnown
    /\ last.saw = <<4242>> /\ ~last.result.ok

(***************************************************************************)
(* The flag sets: the constants of the five bitflags! declarations.        *)
(***************************************************************************)
\* PolicyDecision
NO_DECISION == \H00
ALLOW       == \H01
DENY        == \H02

\* FilePermission
MAY_EXEC      == \H00000001
MAY_WRITE     == \H00000002
MAY_READ      == \H00000004
MAY_APPEND    == \H00000008
MAY_CREATE    == \H00000010
MAY_DELETE    == \H00000020
MAY_RENAME    == \H00000040
MAY_SETATTR   == \H00000080
MAY_CHMOD     == \H00000100
MAY_CHOWN     == \H00000200
MAY_LINK      == \H00000400
MAY_EXEC_MMAP == \H00000800
MAY_CHDIR     == \H00001000

\* Capability
NET_BIND_SERVICE == \H00000001
NET_RAW          == \H00000002
NET_BROADCAST    == \H00000004
DAC_OVERRIDE     == \H00000008
DAC_READ_SEARCH  == \H00000010

\* NetCategory
WWW == \H01
IPC == \H02

\* NetOperation
NET_CONNECT  == \H00000001
NET_BIND     == \H00000002
NET_ACCEPT   == \H00000004
NET_LISTEN   == \H00000008
NET_SEND     == \H00000010
NET_RECV     == \H00000020
NET_CREATE   == \H00000040
NET_SHUTDOWN == \H00000080

FlagSets ==
    {"PolicyDecision", "FilePermission", "Capability", "NetCategory", "NetOperation"}

\* A deviation: MAY_CHDIR written with the bit of MAY_CHMOD.
FlagListRepeatedBit(F) ==
    CASE F = "PolicyDecision" ->
           <<NO_DECISION, ALLOW, DENY>>
      [] F = "FilePermission" ->
           <<MAY_EXEC, MAY_WRITE, MAY_READ, MAY_APPEND, MAY_CREATE, MAY_DELETE,
           MAY_RENAME, MAY_SETATTR, MAY_CHMOD, MAY_CHOWN, MAY_LINK,
           MAY_EXEC_MMAP, MAY_CHMOD>>
      [] F = "Capability" ->
           <<NET_BIND_SERVICE, NET_RAW, NET_BROADCAST, DAC_OVERRIDE,
           DAC_READ_SEARCH>>
      [] F = "NetCategory" ->
           <<WWW, IPC>>
      [] F = "NetOperation" ->
           <<NET_CONNECT, NET_BIND, NET_ACCEPT, NET_LISTEN, NET_SEND, NET_RECV,
           NET_CREATE, NET_SHUTDOWN>>

\* The named constants of flag set F, in declaration order.
FlagList(F) ==
    CASE F = "PolicyDecision" ->
           <<NO_DECISION, ALLOW, DENY>>
      [] F = "FilePermission" ->
           <<MAY_EXEC, MAY_WRITE, MAY_READ, MAY_APPEND, MAY_CREATE, MAY_DELETE,
           MAY_RENAME, MAY_SETATTR, MAY_CHMOD, MAY_CHOWN, MAY_LINK,
           MAY_EXEC_MMAP, MAY_CHDIR>>
      [] F = "Capability" ->
           <<NET_BIND_SERVICE, NET_RAW, NET_BROADCAST, DAC_OVERRIDE,
           DAC_READ_SEARCH>>
      [] F = "NetCategory" ->
           <<WWW, IPC>>
      [] F = "NetOperation" ->
           <<NET_CONNECT, NET_BIND, NET_ACCEPT, NET_LISTEN, NET_SEND, NET_RECV,
           NET_CREATE, NET_SHUTDOWN>>

(***************************************************************************)
(* Bitwise operators of the underlying integers (&, |, & !).               *)
(***************************************************************************)
RECURSIVE BitAnd(_, _)
BitAnd(a, b) ==
    IF a = 0 \/ b = 0 THEN 0
    ELSE (a % 2) * (b % 2) + 2 * BitAnd(a \div 2, b \div 2)

RECURSIVE BitOr(_, _)
BitOr(a, b) ==
    IF a = 0 THEN b
    ELSE IF b = 0 THEN a
    ELSE (IF a % 2 = 1 \/ b % 2 = 1 THEN 1 ELSE 0) + 2 * BitOr(a \div 2, b \div 2)

RECURSIVE BitXor(_, _)
BitXor(a, b) ==
    IF a = 0 THEN b
    ELSE IF b = 0 THEN a
    ELSE ((a + b) % 2) + 2 * BitXor(a \div 2, b \div 2)

RECURSIVE BitAndNot(_, _)
BitAndNot(a, b) ==
    IF a = 0 THEN 0
    ELSE (a % 2) * (1 - (b % 2)) + 2 * BitAndNot(a \div 2, b \div 2)

(***************************************************************************)
(* What bitflags! generates for a set F.  A value is the struct            *)
(* { bits: T }; from_bits returns Option<Self>.                            *)
(***************************************************************************)
Flag(n) == [bits |-> n]
bits(f) == f.bits

RECURSIVE OrOfAll(_)
OrOfAll(s) == IF s = <<>> THEN 0 ELSE BitOr(Head(s), OrOfAll(Tail(s)))

all(F) == Flag(OrOfAll(FlagList(F)))

\* #[derive(Default)] on the generated struct: bits = T::default() = 0.
\* (DefaultIsAll is the deviation that starts from every flag.)
DefaultIsAll(F) == all(F)
Default(F) == Flag(0)

from_bits_truncate(F, v) == Flag(BitAnd(v, bits(all(F))))
from_bits_unchecked(F, v) == Flag(v)

\* from_bits is None when v has a bit outside all().
\* (from_bits_retaining is the deviation that accepts every v.)
from_bits_retaining(F, v) == [some |-> TRUE, val |-> Flag(v)]
from_bits(F, v) ==
    IF BitAndNot(v, bits(all(F))) = 0
    THEN [some |-> TRUE, val |-> Flag(v)]
    ELSE [some |-> FALSE, val |-> Flag(0)]

\* union is |, intersection is &, contains is (bits & other.bits) == other.bits.
\* (symmetric_union is the deviation that uses ^.)
symmetric_union(a, b) == Flag(BitXor(bits(a), bits(b)))
union(a, b) == Flag(BitOr(bits(a), bits(b)))
intersection(a, b) == Flag(BitAnd(bits(a), bits(b)))
contains(a, other) == BitAnd(bits(a), bits(other)) = bits(other)

(***************************************************************************)
(* The underlying integer types come from lib/bindings.rs; their widths as *)
(* the specification documents them (section 4.1), in bits.                *)
(***************************************************************************)
Width(F) == IF F = "FilePermission" THEN 16 ELSE 8

\* Raw integers handed to the constructors: small ones, all named bits, the
\* first unnamed bit and all ones, as far as they fit the width.
RawValues(F) ==
    {v \in (0..MaxRaw) \cup {bits(all(F)), bits(all(F)) + 1, 2 ^ Width(F) - 1} :
        v < 2 ^ Width(F)}

(***************************************************************************)
(* Actions on flag values: x and y hold the two most recent values built.  *)
(***************************************************************************)
InitFlags ==
    /\ attached = FALSE
    /\ containers = {}
    /\ processes = <<>>
    /\ last = NoCall
    /\ fs \in FlagSets
    /\ x = Default(fs)
    /\ y = Default(fs)
    /\ res = [op |-> "default", a |-> 0, b |-> 0, some |-> TRUE, out |-> bits(Default(fs))]

TakeDefault ==
    /\ res' = [op |-> "default", a |-> 0, b |-> 0, some |-> TRUE,
               out |-> bits(Default(fs))]
    /\ x' = Default(fs)
    /\ y' = x
    /\ UNCHANGED <<fs, attached, containers, processes, last>>

TakeAll ==
    /\ res' = [op |-> "all", a |-> 0, b |-> 0, some |-> TRUE, out |-> bits(all(fs))]
    /\ x' = all(fs)
    /\ y' = x
    /\ UNCHANGED <<fs, attached, containers, processes, last>>

FromBits(v) ==
    LET r == from_bits(fs, v)
    IN  /\ res' = [op |-> "from_bits", a |-> v, b |-> 0, some |-> r.some,
                   out |-> bits(r.val)]
        /\ x' = IF r.some THEN r.val ELSE x
        /\ y' = IF r.some THEN x ELSE y
        /\ UNCHANGED <<fs, attached, containers, processes, last>>

FromBitsTruncate(v) ==
    LET r == from_bits_truncate(fs, v)
    IN  /\ res' = [op |-> "from_bits_truncate", a |-> v, b |-> 0, some |-> TRUE,
                   out |-> bits(r)]
        /\ x' = r
        /\ y' = x
        /\ UNCHANGED <<fs, attached, containers, processes, last>>

FromBitsUnchecked(v) ==
    LET r == from_bits_unchecked(fs, v)
    IN  /\ res' = [op |-> "from_bits_unchecked", a |-> v, b |-> 0, some |-> TRUE,
                   out |-> bits(r)]
        /\ x' = r
        /\ y' = x
        /\ UNCHANGED <<fs, attached, containers, processes, last>>

TakeUnion ==
    /\ res' = [op |-> "union", a |-> bits(x), b |-> bits(y), some |-> TRUE,
               out |-> bits(union(x, y))]
    /\ UNCHANGED <<x, y, fs, attached, containers, processes, last>>

TakeIntersection ==
    /\ res' = [op |-> "intersection", a |-> bits(x), b |-> bits(y), some |-> TRUE,
               out |-> bits(intersection(x, y))]
    /\ UNCHANGED <<x, y, fs, attached, containers, processes, last>>

NextFlags ==
    \/ TakeDefault
    \/ TakeAll
    \/ \E v \in RawValues(fs) : FromBits(v)
    \/ \E v \in RawValues(fs) : FromBitsTruncate(v)
    \/ \E v \in RawValues(fs) : FromBitsUnchecked(v)
    \/ TakeUnion
    \/ TakeIntersection

SpecFlags == InitFlags /\ [][NextFlags]_vars

(***************************************************************************)
(* Claims about the flag sets.                                             *)
(***************************************************************************)
Bit(v, i) == (v \div (2 ^ i)) % 2 = 1

NonZero(s) == SelectSeq(s, LAMBDA f : f # 0)

\* Every bit set in v is the bit of a named constant of F.
OnlyNamedBits(F, v) ==
    \A i \in 0..(Width(F) - 1) :
        Bit(v, i) => \E k \in 1..Len(FlagList(F)) : Bit(FlagList(F)[k], i)

\* C7 as stated: from_bits(v).bits() = v for every representable integer v: the
\* conversion never rejects v and never drops a bit of it.
C7_RoundTripEveryInteger ==
    res.op = "from_bits" => (res.some /\ res.out = res.a)

\* C7 (amended): from_bits(v).bits() = v for every v all of whose set bits are
\* named flags of the set; a v with any other bit set is rejected (None).
C7_RoundTripNamedBits ==
    res.op = "from_bits" =>
        /\ (res.some <=> OnlyNamedBits(fs, res.a))
        /\ (res.some => res.out = res.a /\ bits(x) = res.a)

C7_Witness ==
    /\ fs = "FilePermission" /\ res.op = "from_bits"
    /\ res.a = 8191 /\ res.some /\ res.out = 8191

\* C8: a.union(b) contains a and contains b; a.intersection(b) has a bit set exactly
\* when it is set in both a and b, so a and b each contain the intersection.
C8_UnionIntersection ==
    /\ res.op = "union" =>
          /\ contains(Flag(res.out), Flag(res.a))
          /\ contains(Flag(res.out), Flag(res.b))
          /\ \A i \in 0..(Width(fs) - 1) :
                (Bit(res.a, i) \/ Bit(res.b, i)) => Bit(res.out, i)
    /\ res.op = "intersection" =>
          /\ \A i \in 0..(Width(fs) - 1) :
                Bit(res.out, i) <=> (Bit(res.a, i) /\ Bit(res.b, i))
          /\ contains(Flag(res.a), Flag(res.out))
          /\ contains(Flag(res.b), Flag(res.out))

C8_Witness ==
    /\ fs = "Capability" /\ res.op = "union"
    /\ res.a = 6 /\ res.b = 3 /\ res.out = 7

\* C9: the default PolicyDecision has no bit set and equals NO_DECISION; it contains
\* neither ALLOW nor DENY; the value ALLOW|DENY (0x03) is a value of the type.
C9_DefaultNoDecision ==
    fs = "PolicyDecision" =>
        /\ res.op = "default" =>
              /\ res.out = 0
              /\ Flag(res.out) = Flag(NO_DECISION)
              /\ ~contains(Flag(res.out), Flag(ALLOW))
              /\ ~contains(Flag(res.out), Flag(DENY))
        /\ (res.op = "from_bits" /\ res.a = 3) =>
              /\ res.some
              /\ contains(Flag(res.out), Flag(ALLOW))
              /\ contains(Flag(res.out), Flag(DENY))
        /\ (res.op = "union" /\ {res.a, res.b} = {ALLOW, DENY}) => res.out = 3

C9_Witness ==
    /\ fs = "PolicyDecision" /\ res.op = "from_bits" /\ res.a = 3 /\ res.some
    /\ y = Default(fs) /\ bits(y) = 0

\* The number of named non-zero flags and their union, as the claim lists them.
Expected(F) ==
    CASE F = "PolicyDecision" -> [count |-> 2, union |-> 3, bytes |-> 1]
      [] F = "FilePermission" -> [count |-> 13, union |-> 8191, bytes |-> 2]
      [] F = "Capability" -> [count |-> 5, union |-> 31, bytes |-> 1]
      [] F = "NetCategory" -> [count |-> 2, union |-> 3, bytes |-> 1]
      [] F = "NetOperation" -> [count |-> 8, union |-> 255, bytes |-> 1]

\* C10: in each set every named non-zero flag is a single bit, no two named flags
\* share a bit, the bits are contiguous from 0x1, and their union is the stated one
\* and fits the stated width: FilePermission 13 flags, 0x1FFF, 2 bytes; Capability
\* 5, 0x1F; NetCategory 2, 0x03; NetOperation 8, 0xFF (1 byte each); PolicyDecision
\* ALLOW = 0x01, DENY = 0x02, NO_DECISION = 0x00.
C10_FlagBits ==
    LET fl == NonZero(FlagList(fs))
        n == Len(fl)
    IN  /\ n = Expected(fs).count
        /\ \A k \in 1..n : \E i \in 0..(n - 1) : fl[k] = 2 ^ i
        /\ \A j, k \in 1..n : j # k => BitAnd(fl[j], fl[k]) = 0
        /\ {fl[k] : k \in 1..n} = {2 ^ i : i \in 0..(n - 1)}
        /\ bits(all(fs)) = Expected(fs).union
        /\ bits(all(fs)) < 2 ^ (8 * Expected(fs).bytes)
        /\ res.op = "all" => res.out = Expected(fs).union
        /\ fs = "PolicyDecision" => FlagList(fs) = <<0, 1, 2>>

C10_Witness ==
    /\ fs = "FilePermission" /\ res.op = "all" /\ res.out = 8191
    /\ Len(FlagList(fs)) = 13

====
